---- MODULE Spec2Model ----
(***************************************************************************)
(* State-machine model of src/main.py (zotero-arxiv-daily): one run of     *)
(* main(), from the credential check to the delivery of the digest.        *)
(* External collaborators (Zotero, arXiv, Gemini, SMTP) are inputs chosen   *)
(* nondeterministically inside the action that calls them.                  *)
(***************************************************************************)
EXTENDS Integers, Sequences, FiniteSets, TLC

\* ------------------------------------------------------------------ bounds
MaxResults == 3      \* entries the arXiv search hands back in the model
MaxTags    == 1      \* tags read from Zotero before the read ends or fails
OverRange  == 11     \* an integer score outside the 0..10 the prompt asks for
MaxTagsFn  == 3      \* tags handed to get_keywords_from_zotero called on its own

\* ------------------------------------------------------- program constants
Threshold   == 7     \* main.py:162   if score >= 7
WindowHours == 36    \* main.py:82    timedelta(hours=36)
KeywordCap  == 6     \* main.py:63    final_keywords[:6]
ErrorPause  == 1     \* main.py:132   time.sleep(1)
LoopPause   == 2     \* main.py:168   time.sleep(2)
MaxScore    == 10    \* main.py:117   Score relevance from 0 to 10

VARIABLES
    GEMINI_KEY,          \* truthiness of os.environ GEMINI_API_KEY
    Z_ID, Z_KEY,         \* truthiness of the Zotero credentials
    pc,                  \* position of main()
    exc,                 \* the uncaught exception that ended main(), or "none"
    keywords,            \* main's keywords
    candidates,          \* main's candidates
    idx,                 \* position of the for loop in candidates (1-based)
    review,              \* main's review (the value ai_review_paper returned)
    high_quality_papers, \* main's high_quality_papers
    content,             \* the rendered mail body
    responses,           \* what the scoring service answered, per invocation
    log,                 \* external calls, sleeps and stage steps, in the order they happened
    fn_call,             \* a function called on its own: its name and arguments
    fn_ret               \* what that call returned

vars == <<GEMINI_KEY, Z_ID, Z_KEY, pc, exc, keywords, candidates, idx, review,
          high_quality_papers, content, responses, log, fn_call, fn_ret>>

\* ------------------------------------------------------------------ helpers
Range(s) == {s[i] : i \in 1..Len(s)}

RECURSIVE Reverse(_)
Reverse(s) == IF s = <<>> THEN <<>> ELSE Reverse(Tail(s)) \o <<Head(s)>>

Take(s, n) == SubSeq(s, 1, IF Len(s) < n THEN Len(s) ELSE n)

Ev(e, a) == [ev |-> e, arg |-> a]

\* All the orders in which list(set) may enumerate a set of strings.
Orders(S) ==
    {s \in [1..Cardinality(S) -> S] : \A i, j \in 1..Cardinality(S) : s[i] = s[j] => i = j}

\* ---------------------------------------------------------------- keywords
core_keywords == <<"FPGA", "Quantization", "Vision Transformer", "Hardware Accelerator">>

\* Tags the reference manager may hold; the last one is not ASCII.
TagUniverse == {"FPGA", "LLM", "Liang-Hua(zh)"}
NonAsciiTags == {"Liang-Hua(zh)"}
isascii(t) == t \notin NonAsciiTags

TagSeqs == UNION {[1..n -> TagUniverse] : n \in 0..MaxTags}

\* get_keywords_from_zotero with keywords = {t['tag']} in place of
\* keywords.add(t['tag']): only the last ASCII tag read is kept.
get_keywords_last_tag(tags) ==
    LET asc == SelectSeq(tags, isascii)
        kw == IF asc = <<>> THEN {} ELSE {asc[Len(asc)]}
    IN  {Take(o \o core_keywords, KeywordCap) : o \in Orders(kw)}

\* The lists get_keywords_from_zotero may return once `tags` were read.
get_keywords_from_zotero(tags) ==
    LET kw == {t \in Range(tags) : isascii(t)}
    IN  {Take(o \o core_keywords, KeywordCap) : o \in Orders(kw)}

\* Tags for get_keywords_from_zotero called on its own: with three ASCII tags
\* and the four core keywords the cap of line 63 cuts the list.
TagUniverseFn == TagUniverse \cup {"RISC-V"}
TagSeqsFn == UNION {[1..n -> TagUniverseFn] : n \in 0..MaxTagsFn}

\* The same tags (the same multiset) arriving in another order.
Occurrences(x, s) == Cardinality({i \in 1..Len(s) : s[i] = x})
Rearrangements(s) ==
    {t \in [1..Len(s) -> Range(s)] : \A x \in Range(s) : Occurrences(x, t) = Occurrences(x, s)}

\* ------------------------------------------------------------------ search
\* Publication ages (hours before the run instant) an arXiv entry may have:
\* inside the window, exactly at its boundary, and before it.
Ages == {WindowHours - 1, WindowHours, WindowHours + 1}

ResultSeqs == UNION {[1..n -> Ages] : n \in 0..MaxResults}

\* The window test written r.published >= yesterday.
in_window_inclusive(age) == age <= WindowHours

\* r.published > yesterday, with yesterday = now - 36h: the entry is younger
\* than 36 hours.
in_window(age) == age < WindowHours

RECURSIVE search_from(_, _)
\* The for loop of search_arxiv from entry i on: r.published > yesterday,
\* with yesterday = now - 36h, keeps the entries younger than 36 hours.
\* A candidate is the dict built from entry i (title, abstract, url, authors);
\* age is carried along to tell which entry it came from.
search_from(results, i) ==
    IF i > Len(results) THEN <<>>
    ELSE (IF in_window(results[i])
             THEN <<[title |-> i, url |-> i, age |-> results[i]]>>
             ELSE <<>>) \o search_from(results, i + 1)

search_arxiv(results) == search_from(results, 1)

\* ----------------------------------------------------------------- scoring
IntScore(n)   == [t |-> "int", v |-> n]
FloatScore(n) == [t |-> "float", v |-> n]      \* the number n + 0.5
StrScore      == [t |-> "str", v |-> 0]        \* a JSON string such as "8"
NoneScore     == [t |-> "none", v |-> 0]       \* JSON null

ScoreValues ==
    {IntScore(n) : n \in {0, Threshold - 1, Threshold, Threshold + 1, OverRange}}
    \cup {FloatScore(Threshold), StrScore, NoneScore}

Resp(k, hs, s, hr) == [kind |-> k, hasScore |-> hs, score |-> s, hasReason |-> hr]

\* What one invocation of the scoring service may do: raise, answer text that
\* is not JSON, answer JSON that is not an object, or answer a JSON object
\* with or without the "score" and "reason" fields.
Responses ==
    {Resp("raise", FALSE, NoneScore, FALSE),
     Resp("nonjson", FALSE, NoneScore, FALSE),
     Resp("nonobj", FALSE, NoneScore, FALSE),
     Resp("obj", FALSE, NoneScore, TRUE),
     Resp("obj", TRUE, IntScore(Threshold + 1), FALSE)}
    \cup {Resp("obj", TRUE, s, TRUE) : s \in ScoreValues}

Sentinel ==
    [isdict |-> TRUE, hasScore |-> TRUE, score |-> IntScore(0),
     hasReason |-> TRUE, reason |-> "Error"]

NoReview ==
    [isdict |-> FALSE, hasScore |-> FALSE, score |-> NoneScore,
     hasReason |-> FALSE, reason |-> ""]

\* json.loads(response.text) on a response that is valid JSON.
json_loads(r) ==
    [isdict |-> r.kind = "obj", hasScore |-> r.kind = "obj" /\ r.hasScore,
     score |-> r.score, hasReason |-> r.kind = "obj" /\ r.hasReason,
     reason |-> IF r.kind = "obj" /\ r.hasReason THEN "text" ELSE ""]

\* The try block of ai_review_paper raises when generate_content raises or
\* when json.loads rejects the text.
Raises(r) == r.kind \in {"raise", "nonjson"}

\* ai_review_paper whose except branch falls off the end without a return.
ai_review_paper_no_return(r) == IF Raises(r) THEN NoReview ELSE json_loads(r)

ai_review_paper(r) == IF Raises(r) THEN Sentinel ELSE json_loads(r)

\* review.get('score', 0) and review.get('reason', 'N/A') on a dict.
get_score(rv)  == IF rv.hasScore THEN rv.score ELSE IntScore(0)
get_reason(rv) == IF rv.hasReason THEN rv.reason ELSE "N/A"

\* score >= 7 raises TypeError unless score is a number.
IsNumber(s) == s.t \in {"int", "float"}
\* The threshold test written score > 7.
ScoreGT(s, n) == s.v > n \/ (s.v = n /\ s.t = "float")

\* n + 0.5 >= 7 exactly when n >= 7, for integer n.
ScoreGE(s, n) == s.v >= n

\* ----------------------------------------------------------------- ranking
\* Twice the numeric value of a score, to compare integers with halves.
Key2(s) == IF s.t = "float" THEN 2 * s.v + 1 ELSE 2 * s.v

RECURSIVE InsertAsc(_, _)
\* Insert p after every element whose key is not greater (stable).
InsertAsc(p, s) ==
    IF s = <<>> THEN <<p>>
    ELSE IF Key2(Head(s).score) <= Key2(p.score)
         THEN <<Head(s)>> \o InsertAsc(p, Tail(s))
         ELSE <<p>> \o s

RECURSIVE SortAsc(_)
SortAsc(s) ==
    IF s = <<>> THEN <<>>
    ELSE InsertAsc(s[Len(s)], SortAsc(SubSeq(s, 1, Len(s) - 1)))

\* A descending sort that is not stable: ascending sort, then reversed.
sort_unstable(s) == Reverse(SortAsc(s))

\* list.sort(key=..., reverse=True): the list is reversed, sorted stably in
\* ascending key order and reversed again.
sort_reverse(s) == Reverse(SortAsc(Reverse(s)))

\* --------------------------------------------------------------- rendering
\* A block that puts the link before the title and the reason.
render_block_url_first(p) ==
    << [field |-> "score", of |-> p.title],
       [field |-> "url", of |-> p.title],
       [field |-> "title", of |-> p.title],
       [field |-> "reason", of |-> p.title],
       [field |-> "separator", of |-> p.title] >>

\* Lines 180-183: the score and the title on one line, the reason, the link,
\* and a line of dashes.
render_block(p) ==
    << [field |-> "score", of |-> p.title],
       [field |-> "title", of |-> p.title],
       [field |-> "reason", of |-> p.title],
       [field |-> "url", of |-> p.title],
       [field |-> "separator", of |-> p.title] >>

RECURSIVE render_blocks(_)
render_blocks(ps) ==
    IF ps = <<>> THEN <<>>
    ELSE render_block(Head(ps)) \o render_blocks(Tail(ps))

render(ps) == <<[field |-> "summary", of |-> Len(ps)]>> \o render_blocks(ps)

\* -------------------------------------------------------------------- Init
\* No function has been called on its own.
NoCall == [fn |-> "none", arg |-> <<>>, arg2 |-> <<>>]

\* The process environment is read at import time (lines 13-18); main() has
\* not started.
Init ==
    /\ GEMINI_KEY \in BOOLEAN
    /\ Z_ID \in BOOLEAN
    /\ Z_KEY \in BOOLEAN
    /\ pc = "start"
    /\ exc = "none"
    /\ keywords = <<>>
    /\ candidates = <<>>
    /\ idx = 0
    /\ review = NoReview
    /\ high_quality_papers = <<>>
    /\ content = <<>>
    /\ responses = <<>>
    /\ log = <<>>
    /\ fn_call = NoCall
    /\ fn_ret = <<>>

\* ----------------------------------------------------------------- actions
\* main without the return of line 139.
CheckKey_no_return ==
    /\ pc = "start"
    /\ pc' = "keywords"
    /\ UNCHANGED <<fn_call, fn_ret, GEMINI_KEY, Z_ID, Z_KEY, exc, keywords, candidates, idx, review,
                   high_quality_papers, content, responses, log>>

\* main, lines 137-139: without the key, print and return.
CheckKey ==
    /\ pc = "start"
    /\ pc' = IF GEMINI_KEY THEN "keywords" ELSE "done"
    /\ UNCHANGED <<fn_call, fn_ret, GEMINI_KEY, Z_ID, Z_KEY, exc, keywords, candidates, idx, review,
                   high_quality_papers, content, responses, log>>

\* main, line 143: keywords = get_keywords_from_zotero().  With both
\* credentials the reference manager is called; `tags` are the tags read
\* before the read ended, and `failed` tells that it ended by an exception,
\* which the handler of line 54 swallows.
GetKeywords ==
    /\ pc = "keywords"
    /\ \/ /\ Z_ID /\ Z_KEY
          /\ \E tags \in TagSeqs, failed \in BOOLEAN :
                /\ keywords' \in get_keywords_from_zotero(tags)
                /\ log' = log \o <<Ev("zotero", 0)>>
                          \o (IF failed THEN <<Ev("zotero_error", 0)>> ELSE <<>>)
       \/ /\ ~(Z_ID /\ Z_KEY)
          /\ keywords' \in get_keywords_from_zotero(<<>>)
          /\ log' = log
    /\ pc' = "search"
    /\ UNCHANGED <<fn_call, fn_ret, GEMINI_KEY, Z_ID, Z_KEY, exc, candidates, idx, review,
                   high_quality_papers, content, responses>>

\* main, line 144: candidates = search_arxiv(keywords).  client.results may
\* raise (no handler anywhere up to main's caller) or yield its entries.
SearchArxiv ==
    /\ pc = "search"
    /\ \/ /\ \E results \in ResultSeqs : candidates' = search_arxiv(results)
          /\ pc' = "check_empty"
          /\ exc' = exc
       \/ /\ candidates' = candidates
          /\ pc' = "crashed"
          /\ exc' = "SearchError"
    /\ log' = log \o <<Ev("search", Len(keywords))>>
    /\ UNCHANGED <<fn_call, fn_ret, GEMINI_KEY, Z_ID, Z_KEY, keywords, idx, review,
                   high_quality_papers, content, responses>>

\* main with the test of line 146 inverted.
CheckEmpty_inverted ==
    /\ pc = "check_empty"
    /\ IF candidates # <<>>
          THEN pc' = "done" /\ idx' = idx
          ELSE pc' = "review" /\ idx' = 1
    /\ UNCHANGED <<fn_call, fn_ret, GEMINI_KEY, Z_ID, Z_KEY, exc, keywords, candidates, review,
                   high_quality_papers, content, responses, log>>

\* main, lines 146-152: return when nothing was found, else enter the loop.
CheckEmpty ==
    /\ pc = "check_empty"
    /\ IF candidates = <<>>
          THEN pc' = "done" /\ idx' = idx
          ELSE pc' = "review" /\ idx' = 1
    /\ UNCHANGED <<fn_call, fn_ret, GEMINI_KEY, Z_ID, Z_KEY, exc, keywords, candidates, review,
                   high_quality_papers, content, responses, log>>

\* main, line 156: review = ai_review_paper(paper, profile), lines 96-133.
\* The except branch sleeps one second before it returns the sentinel.
Review ==
    /\ pc = "review"
    /\ \E r \in Responses :
          /\ review' = ai_review_paper(r)
          /\ responses' = Append(responses, r)
          /\ log' = log \o <<Ev("score_call", idx)>>
                    \o (IF Raises(r) THEN <<Ev("sleep", ErrorPause)>> ELSE <<>>)
                    \o <<Ev("score_return", idx)>>
    /\ pc' = "filter"
    /\ UNCHANGED <<fn_call, fn_ret, GEMINI_KEY, Z_ID, Z_KEY, exc, keywords, candidates, idx,
                   high_quality_papers, content>>

\* main, lines 157-165: review.get raises AttributeError when review is not
\* a dict, score >= 7 raises TypeError when score is not a number; otherwise
\* the paper is enriched in place and appended when score >= 7.
Filter ==
    /\ pc = "filter"
    /\ LET score == get_score(review)
           paper == [title |-> candidates[idx].title, url |-> candidates[idx].url,
                     age |-> candidates[idx].age,
                     score |-> score, reason |-> get_reason(review)]
       IN  IF ~review.isdict
              THEN /\ pc' = "crashed" /\ exc' = "AttributeError"
                   /\ UNCHANGED <<candidates, high_quality_papers, log>>
           ELSE IF ~IsNumber(score)
              THEN /\ pc' = "crashed" /\ exc' = "TypeError"
                   /\ UNCHANGED <<candidates, high_quality_papers, log>>
           ELSE /\ pc' = "pause" /\ exc' = exc
                /\ log' = log \o <<Ev("filter", idx)>>
                /\ IF ScoreGE(score, Threshold)
                      THEN /\ candidates' = [candidates EXCEPT ![idx] = paper]
                           /\ high_quality_papers' = Append(high_quality_papers, paper)
                      ELSE UNCHANGED <<candidates, high_quality_papers>>
    /\ UNCHANGED <<fn_call, fn_ret, GEMINI_KEY, Z_ID, Z_KEY, keywords, idx, review, content,
                   responses>>

\* The loop without the sleep of line 168.
Pause_no_sleep ==
    /\ pc = "pause"
    /\ log' = log
    /\ IF idx < Len(candidates)
          THEN pc' = "review" /\ idx' = idx + 1
          ELSE pc' = "rank" /\ idx' = idx
    /\ UNCHANGED <<fn_call, fn_ret, GEMINI_KEY, Z_ID, Z_KEY, exc, keywords, candidates, review,
                   high_quality_papers, content, responses>>

\* The loop left after its first iteration.
Pause_break ==
    /\ pc = "pause"
    /\ log' = log \o <<Ev("sleep", LoopPause)>>
    /\ pc' = "rank"
    /\ idx' = idx
    /\ UNCHANGED <<fn_call, fn_ret, GEMINI_KEY, Z_ID, Z_KEY, exc, keywords, candidates, review,
                   high_quality_papers, content, responses>>

\* main, line 168: time.sleep(2), then the next paper or the end of the loop.
Pause ==
    /\ pc = "pause"
    /\ log' = log \o <<Ev("sleep", LoopPause)>>
    /\ IF idx < Len(candidates)
          THEN pc' = "review" /\ idx' = idx + 1
          ELSE pc' = "rank" /\ idx' = idx
    /\ UNCHANGED <<fn_call, fn_ret, GEMINI_KEY, Z_ID, Z_KEY, exc, keywords, candidates, review,
                   high_quality_papers, content, responses>>

\* main without the test of line 173: the mail is built and sent always.
Rank_always_deliver ==
    /\ pc = "rank"
    /\ high_quality_papers' = sort_reverse(high_quality_papers)
    /\ log' = log \o <<Ev("rank", Len(high_quality_papers))>>
    /\ pc' = "deliver"
    /\ content' = render(high_quality_papers')
    /\ UNCHANGED <<fn_call, fn_ret, GEMINI_KEY, Z_ID, Z_KEY, exc, keywords, candidates, idx, review,
                   responses>>

\* main, lines 171-188 and 199-200: sort; with an empty list print and
\* return, else render the mail.
Rank ==
    /\ pc = "rank"
    /\ high_quality_papers' = sort_reverse(high_quality_papers)
    /\ log' = log \o <<Ev("rank", Len(high_quality_papers))>>
    /\ IF high_quality_papers' # <<>>
          THEN pc' = "deliver" /\ content' = render(high_quality_papers')
          ELSE pc' = "done" /\ content' = content
    /\ UNCHANGED <<fn_call, fn_ret, GEMINI_KEY, Z_ID, Z_KEY, exc, keywords, candidates, idx, review,
                   responses>>

\* The steps of the try block of lines 190-198, in order.
SmtpSteps == <<"connect", "login", "send_message", "quit">>

\* A delivery that is attempted again after a failure.
Deliver_retry ==
    /\ pc = "deliver"
    /\ \E n \in 1..Len(SmtpSteps), ok \in BOOLEAN :
          /\ ok => n = Len(SmtpSteps)
          /\ log' = log \o [i \in 1..n |-> Ev(SmtpSteps[i], Len(high_quality_papers))]
                    \o (IF ok THEN <<>> ELSE <<Ev("delivery_error", n)>>)
          /\ pc' = IF ok THEN "done" ELSE "deliver"
    /\ UNCHANGED <<fn_call, fn_ret, GEMINI_KEY, Z_ID, Z_KEY, exc, keywords, candidates, idx, review,
                   high_quality_papers, content, responses>>

\* main, lines 190-198: the steps run in order until one raises; the handler
\* of line 197 prints and main ends.  n is the number of steps entered.
Deliver ==
    /\ pc = "deliver"
    /\ \E n \in 1..Len(SmtpSteps), ok \in BOOLEAN :
          /\ ok => n = Len(SmtpSteps)
          /\ log' = log \o [i \in 1..n |-> Ev(SmtpSteps[i], Len(high_quality_papers))]
                    \o (IF ok THEN <<>> ELSE <<Ev("delivery_error", n)>>)
    /\ pc' = "done"
    /\ UNCHANGED <<fn_call, fn_ret, GEMINI_KEY, Z_ID, Z_KEY, exc, keywords, candidates, idx, review,
                   high_quality_papers, content, responses>>

\* get_keywords_from_zotero called on its own, twice, on the same tags in two
\* arrival orders (no exception while they are read).
CallKeywords ==
    /\ pc = "unit"
    /\ \E tags \in TagSeqsFn :
       \E tags2 \in Rearrangements(tags) :
       \E k1 \in get_keywords_from_zotero(tags), k2 \in get_keywords_from_zotero(tags2) :
          /\ fn_call' = [fn |-> "get_keywords_from_zotero", arg |-> tags, arg2 |-> tags2]
          /\ fn_ret' = <<k1, k2>>
    /\ pc' = "returned"
    /\ UNCHANGED <<GEMINI_KEY, Z_ID, Z_KEY, exc, keywords, candidates, idx, review,
                   high_quality_papers, content, responses, log>>

\* search_arxiv called on its own on the entries the arXiv client yields.
CallSearch ==
    /\ pc = "unit"
    /\ \E results \in ResultSeqs :
          /\ fn_call' = [fn |-> "search_arxiv", arg |-> results, arg2 |-> <<>>]
          /\ fn_ret' = search_arxiv(results)
    /\ pc' = "returned"
    /\ UNCHANGED <<GEMINI_KEY, Z_ID, Z_KEY, exc, keywords, candidates, idx, review,
                   high_quality_papers, content, responses, log>>

Next ==
    \/ CheckKey
    \/ GetKeywords
    \/ SearchArxiv
    \/ CheckEmpty
    \/ Review
    \/ Filter
    \/ Pause
    \/ Rank
    \/ Deliver

Spec == Init /\ [][Next]_vars

\* The functions of the module called on their own, main() not running.
InitFn ==
    /\ GEMINI_KEY = TRUE
    /\ Z_ID = TRUE
    /\ Z_KEY = TRUE
    /\ pc = "unit"
    /\ exc = "none"
    /\ keywords = <<>>
    /\ candidates = <<>>
    /\ idx = 0
    /\ review = NoReview
    /\ high_quality_papers = <<>>
    /\ content = <<>>
    /\ responses = <<>>
    /\ log = <<>>
    /\ fn_call = NoCall
    /\ fn_ret = <<>>

NextFn ==
    \/ CallKeywords
    \/ CallSearch

SpecFn == InitFn /\ [][NextFn]_vars

\* ================================================================== claims
EventsOf(e) == {i \in 1..Len(log) : log[i].ev = e}

\* Calls to a collaborator: reference manager, search, scoring, mail server.
ExternalEvents == {"zotero", "search", "score_call", "connect", "login", "send_message", "quit"}
ExternalCalls == {i \in 1..Len(log) : log[i].ev \in ExternalEvents}
DeliveryCalls == {i \in 1..Len(log) : log[i].ev \in {"connect", "login", "send_message", "quit"}}

\* The loop has handled every candidate (the run is at or past the ranking).
BatchDone ==
    /\ candidates # <<>>
    /\ idx = Len(candidates)
    /\ pc \in {"rank", "deliver", "done"}

\* The digest entries built from candidate i.
EntriesOf(i) == {k \in 1..Len(high_quality_papers) : high_quality_papers[k].title = candidates[i].title}

\* C1: in the scoring loop, whatever the scoring service does on one candidate
\* (error, non-JSON text, JSON that is not an object, a score that is not an
\* integer), the run does not abort: once a scoring invocation was made the
\* run never ends by an uncaught exception.
C1_FailureNeverAbortsBatch == responses # <<>> => pc # "crashed"

\* A response that parses into exactly an integer score and a string reason.
Parseable(r) == r.kind = "obj" /\ r.hasScore /\ r.score.t = "int" /\ r.hasReason

C3_NoAbortAfterExternalCall == ExternalCalls # {} => pc # "crashed"

\* C4: without the scoring-service credential the run ends without any call
\* to the reference manager, the search, the scoring service or the mail
\* server.
C4_NoCallWithoutKey == ~GEMINI_KEY => (ExternalCalls = {} /\ pc \in {"start", "done"})

C4_Witness == ~GEMINI_KEY /\ Z_ID /\ Z_KEY /\ pc = "done"

\* C5: between two scoring invocations the earlier one has returned and a
\* pause has been made after its return, whether it succeeded or failed.
C5_PauseBetweenScoring ==
    \A i, j \in EventsOf("score_call") :
        i < j => \E r, s \in i+1..j-1 :
                    /\ r < s
                    /\ log[r].ev = "score_return" /\ log[r].arg = log[i].arg
                    /\ log[s].ev = "sleep"

C5_Witness ==
    /\ Len(responses) = 3
    /\ responses[1].kind = "raise"
    /\ Parseable(responses[2])
    /\ pc = "filter"

\* C6: after the loop the digest holds exactly the candidates whose score is
\* at least 7, each once (7 in, 6 out, 0 and every sentinel out).
C6_DigestIsThreshold ==
    BatchDone =>
        \A i \in 1..Len(candidates) :
            LET r == responses[i]
                scored == IF r.kind = "obj" /\ r.hasScore THEN r.score ELSE IntScore(0)
            IN  Cardinality(EntriesOf(i)) = IF Key2(scored) >= 2 * Threshold THEN 1 ELSE 0

C6_Witness ==
    /\ pc = "done"
    /\ Len(responses) = 3
    /\ responses[1] = Resp("obj", TRUE, IntScore(Threshold - 1), TRUE)
    /\ responses[2] = Resp("obj", TRUE, IntScore(Threshold), TRUE)
    /\ responses[3] = Resp("obj", TRUE, IntScore(0), TRUE)
    /\ Len(high_quality_papers) = 1
    /\ high_quality_papers[1].title = candidates[2].title

\* The ranking has been done (the run is at the delivery or past it).
Ranked == pc = "deliver" \/ (pc = "done" /\ content # <<>>)

\* Position of a digest entry in the output of search_arxiv.
RetrievalPos(p) == CHOOSE i \in 1..Len(candidates) : candidates[i].title = p.title

\* C7: the ranked digest is non-increasing in score, and entries of equal
\* score keep the relative order they had in the output of search_arxiv.
C7_RankedStable ==
    Ranked =>
        \A a, b \in 1..Len(high_quality_papers) :
            a < b =>
                LET pa == high_quality_papers[a]
                    pb == high_quality_papers[b]
                IN  /\ Key2(pa.score) >= Key2(pb.score)
                    /\ Key2(pa.score) = Key2(pb.score) => RetrievalPos(pa) < RetrievalPos(pb)

C7_Witness ==
    /\ pc = "deliver"
    /\ Len(high_quality_papers) = 3
    /\ high_quality_papers[1].score = high_quality_papers[2].score
    /\ RetrievalPos(high_quality_papers[3]) = 1
    /\ high_quality_papers[3].score = IntScore(Threshold)

\* C8: when search_arxiv returns no candidate, no scoring call and no
\* delivery call is made.
C8_EmptyShortCircuits ==
    (EventsOf("search") # {} /\ pc # "crashed" /\ candidates = <<>>)
        => (EventsOf("score_call") = {} /\ DeliveryCalls = {})

C8_Witness == EventsOf("search") # {} /\ candidates = <<>> /\ pc = "done"

\* C9: a delivery call is made only if a candidate scored at or above the
\* threshold; with an empty ranked sequence there is none.
C9_DeliveryOnlyIfQualified ==
    /\ DeliveryCalls # {} =>
          \E i \in 1..Len(responses) :
              /\ responses[i].kind = "obj" /\ responses[i].hasScore
              /\ Key2(responses[i].score) >= 2 * Threshold
    /\ (pc = "done" /\ high_quality_papers = <<>>) => DeliveryCalls = {}

C9_Witness ==
    /\ pc = "done"
    /\ Len(candidates) = 2
    /\ Len(responses) = 2
    /\ responses[1].kind = "nonjson"
    /\ responses[2] = Resp("obj", TRUE, IntScore(Threshold - 1), TRUE)
    /\ DeliveryCalls = {}

\* C10: a failed delivery is caught, the run still completes, and a run
\* makes at most one delivery attempt.
C10_DeliveryFailureCaught ==
    /\ EventsOf("delivery_error") # {} => (pc = "done" /\ exc = "none")
    /\ Cardinality(EventsOf("connect")) <= 1
    /\ Cardinality(EventsOf("send_message")) <= 1

C10_Witness ==
    /\ pc = "done"
    /\ EventsOf("send_message") # {}
    /\ EventsOf("delivery_error") # {}
    /\ EventsOf("quit") = {}

\* ------------------------------------------------- keyword and search claims
KeywordsCalled == fn_call.fn = "get_keywords_from_zotero"
SearchCalled == fn_call.fn = "search_arxiv"

NoDuplicate(s) == \A i, j \in 1..Len(s) : s[i] = s[j] => i = j

\* The distinct ASCII tags among the tags handed to the call.
AsciiTagsOf(tags) == {t \in Range(tags) : isascii(t)}

\* C11: the list get_keywords_from_zotero returns holds no string twice and
\* has at most 6 elements.
C11_DistinctAndCapped ==
    KeywordsCalled => (NoDuplicate(fn_ret[1]) /\ Len(fn_ret[1]) <= KeywordCap)

C13_FailureMeansFallbackOnly ==
    (/\ GEMINI_KEY
     /\ pc \notin {"start", "keywords"}
     /\ (~(Z_ID /\ Z_KEY) \/ EventsOf("zotero_error") # {}))
        => Range(keywords) = Range(core_keywords)

\* C14: search_arxiv returns exactly the entries published strictly after
\* (run time - 36 hours): an entry at the boundary or before it is left out.
C14_WindowStrict ==
    SearchCalled =>
        /\ \A k \in 1..Len(fn_ret) : fn_call.arg[fn_ret[k].title] < WindowHours
        /\ \A i \in 1..Len(fn_call.arg) :
              fn_call.arg[i] >= WindowHours => \A k \in 1..Len(fn_ret) : fn_ret[k].title # i
        /\ Len(fn_ret) = Cardinality({i \in 1..Len(fn_call.arg) : fn_call.arg[i] < WindowHours})

C14_Witness ==
    /\ SearchCalled
    /\ fn_call.arg = <<WindowHours, WindowHours - 1, WindowHours + 1>>
    /\ Len(fn_ret) = 1
    /\ fn_ret[1].title = 2

\* ------------------------------------------------ report and pipeline claims
\* The fields of the k-th block of the rendered report, in order.
BlockFields(k) == [j \in 1..5 |-> content[1 + 5 * (k - 1) + j].field]
BlockOwners(k) == {content[1 + 5 * (k - 1) + j].of : j \in 1..5}

\* The report is a summary line bearing the count, then one block per digest
\* entry, in digest order, each closed by a separator.
ReportShape ==
    /\ Len(content) = 1 + 5 * Len(high_quality_papers)
    /\ content[1] = [field |-> "summary", of |-> Len(high_quality_papers)]
    /\ \A k \in 1..Len(high_quality_papers) :
          BlockOwners(k) = {high_quality_papers[k].title}

\* C15 as stated: each block lists score, reason, title, URL in that order,
\* after a summary line bearing the count, with a separator per block.
C15_FieldsScoreReasonTitleUrl ==
    Ranked =>
        /\ ReportShape
        /\ \A k \in 1..Len(high_quality_papers) :
              BlockFields(k) = <<"score", "reason", "title", "url", "separator">>

\* C15 as amended: each block lists score, title, reason, URL in that order,
\* after a summary line bearing the count, with a separator per block.
C15_FieldsScoreTitleReasonUrl ==
    Ranked =>
        /\ ReportShape
        /\ \A k \in 1..Len(high_quality_papers) :
              BlockFields(k) = <<"score", "title", "reason", "url", "separator">>

C15_Witness ==
    /\ pc = "deliver"
    /\ Len(high_quality_papers) = 2
    /\ Len(content) = 11
    /\ content[7].of = high_quality_papers[2].title

ScoreCallsOf(i) == {e \in EventsOf("score_call") : log[e].arg = i}

\* C16: in a run that reached the scoring stage and has ended, each retrieved
\* candidate was submitted to the scoring service exactly once, and at no
\* time was a candidate submitted twice.
C16_EachCandidateScoredOnce ==
    /\ \A i \in 1..Len(candidates) : Cardinality(ScoreCallsOf(i)) <= 1
    /\ (pc \in {"done", "crashed"} /\ EventsOf("score_call") # {}) =>
          \A i \in 1..Len(candidates) : Cardinality(ScoreCallsOf(i)) = 1

StageEvents(es) == {i \in 1..Len(log) : log[i].ev \in es}

\* C17 as stated: no threshold filtering and no ranking step happens before
\* every candidate has been scored (every scoring call precedes every
\* filtering and ranking step).
C17_NoFilterBeforeAllScored ==
    \A f \in StageEvents({"filter", "rank"}), c \in EventsOf("score_call") : c < f

\* C17 as amended: the search call comes after the keyword extraction; the
\* threshold test of a candidate comes after its own scoring and before the
\* next candidate's; the ranking comes after every candidate was scored and
\* tested; the delivery comes after the ranking.
C17_StagesInOrder ==
    LET zoteros  == StageEvents({"zotero", "zotero_error"})
        searches == EventsOf("search")
        calls    == EventsOf("score_call")
        returns  == EventsOf("score_return")
        filters  == EventsOf("filter")
        ranks    == EventsOf("rank")
    IN  /\ \A z \in zoteros, s \in searches : z < s
        /\ (searches # {} /\ Z_ID /\ Z_KEY) => EventsOf("zotero") # {}
        /\ \A s \in searches, c \in calls : s < c
        /\ \A f \in filters :
              /\ \E r \in returns : r < f /\ log[r].arg = log[f].arg
              /\ \A c \in calls : c < f <=> log[c].arg <= log[f].arg
        /\ \A k \in ranks :
              /\ \A c \in calls \cup returns \cup filters : c < k
              /\ {log[f].arg : f \in filters} = 1..Len(candidates)
        /\ \A d \in DeliveryCalls : \E k \in ranks : k < d

C17_Witness ==
    /\ pc = "done"
    /\ Len(candidates) = 3
    /\ EventsOf("zotero") # {}
    /\ EventsOf("send_message") # {}
    /\ Cardinality(EventsOf("filter")) = 3

\* C18: every score attached to a candidate in the digest is an integer in
\* the range 0 to 10.
C18_DigestScoreInRange ==
    Ranked =>
        \A k \in 1..Len(high_quality_papers) :
            /\ high_quality_papers[k].score.t = "int"
            /\ high_quality_papers[k].score.v \in 0..MaxScore

====
